---- MODULE Spec2Model ----
(***************************************************************************)
(* State-machine model of selfdrive/ui/ui.cc: the per-tick reactive state  *)
(* synchronisation (update_state, UIState::updateStatus), the live         *)
(* parameter refresh, and the Device wakefulness / brightness controller   *)
(* with its single background hardware brightness write.                   *)
(*                                                                         *)
(* One Tick is one run of UIState::update, including the uiUpdate signal   *)
(* that runs Device::update in the same thread.                            *)
(***************************************************************************)
EXTENDS Integers, Sequences, FiniteSets, TLC

VARIABLES
  frame,                \* sm->frame
  updated,              \* set of topics with sm->updated(topic) in the current tick
  rcv_frame,            \* sm->rcv_frame("pandaStates")
  msgs,                 \* (*sm)[topic], the latest deviceState and controlsState messages
  scene,                \* UIState::scene
  status,               \* UIState::status
  started_prev,         \* UIState::started_prev
  default_params_set,   \* scene.default_params_set
  toggles_checked,      \* static toggles_checked of ui_update_params
  live_toggles_checked, \* static live_toggles_checked of ui_update_live_params
  FrogPilotTogglesUpdated, \* params_memory "FrogPilotTogglesUpdated"
  awake,                \* Device::awake
  interactive_timeout,  \* Device::interactive_timeout
  ignition_on,          \* Device::ignition_on
  last_brightness,      \* Device::last_brightness
  brightness_filter,    \* Device::brightness_filter (its value x)
  future_running,       \* brightness_future.isRunning()
  in_flight,            \* arguments of the Hardware::set_brightness calls still running
  hw_brightness,        \* last value a completed Hardware::set_brightness wrote (-1: none yet)
  display_power,        \* last value given to Hardware::set_display_power
  brightness,           \* the local `brightness` of the last Device::updateBrightness
  zero_due,             \* observation: awake turned false and no tick has since
                        \* started with awake false and no write in flight
  seen,                 \* observation: the fresh messages of the last tick, for the
                        \* topics the specification watches
  call,                 \* the last call of a model-geometry function: its arguments
                        \* and, once it ran, its result
  emitted               \* signals and hardware calls of the last step, in order

vars == <<frame, updated, rcv_frame, msgs, scene, status, started_prev,
          default_params_set, toggles_checked, live_toggles_checked,
          FrogPilotTogglesUpdated, awake, interactive_timeout, ignition_on,
          last_brightness, brightness_filter, future_running, in_flight,
          hw_brightness, display_power, brightness, zero_due, seen, call, emitted>>

uiVars == <<frame, updated, rcv_frame, msgs, scene, status, started_prev,
            default_params_set, toggles_checked, live_toggles_checked,
            FrogPilotTogglesUpdated>>

-----------------------------------------------------------------------------
(* Bounds of the model *)

\* Tick rate. ui.h fixes it; the code is parametric in it and the model runs
\* it at a small rate so that the timeouts (30*UI_FREQ, 10*UI_FREQ) and the
\* staleness gap (5*UI_FREQ) are crossed within the frame bound.
UI_FREQ == 1

\* Ticks are counted up to a bound, one per specification.
MaxFrame == 4
MaxFrameStatus == 4
MaxFrameWake == 8
MaxFrameSync == 2
MaxFrameFair == 2
MaxFrameInputs == 3
MaxFrameBright == 3

\* Euler angles are quarter turns 0..MaxAngle (exact integer rotations).
MaxAngle == 1

\* At most MaxPandas units in one pandaStates message.
MaxPandas == 2

\* Trajectories have TRAJECTORY_SIZE samples (ui.h fixes it; the code is
\* parametric in it); their coordinates are integers, forward distance in
\* -1..MaxX and height in 0..MaxZ.
TRAJECTORY_SIZE == 3
MaxX == 2
MaxZ == 1

\* Lateral and vertical offsets of a band are integers 0..MaxOff.
MaxOff == 1

-----------------------------------------------------------------------------
(* Program constants *)

IgnitionOnTimeout == 10
IgnitionOffTimeout == 30
PandaStaleFactor == 5
TapBrightness == 5
MaxScreenBrightness == 100
MinClippedBrightness == 10
MaxClippedBrightness == 100
BACKLIGHT_OFFROAD == 50
ClipMargin == 500

STATUS_DISENGAGED == "STATUS_DISENGAGED"
STATUS_OVERRIDE == "STATUS_OVERRIDE"
STATUS_ENGAGED == "STATUS_ENGAGED"
STATUS_LATERAL_ACTIVE == "STATUS_LATERAL_ACTIVE"

Topics == {"liveCalibration", "pandaStates", "carControl", "carParams", "carState",
           "controlsState", "gpsLocationExternal", "lateralPlan", "longitudinalPlan",
           "wideRoadCameraState", "deviceState"}

Min(a, b) == IF a <= b THEN a ELSE b
Max(a, b) == IF a >= b THEN a ELSE b
Clamp(v, lo, hi) == IF v < lo THEN lo ELSE IF hi < v THEN hi ELSE v

-----------------------------------------------------------------------------
(* Geometry: rotations by quarter turns, 3x3 matrices as row-major 9-tuples *)

Angles == 0..MaxAngle

Cos4(a) == CASE a % 4 = 0 -> 1 [] a % 4 = 1 -> 0 [] a % 4 = 2 -> -1 [] OTHER -> 0
Sin4(a) == CASE a % 4 = 0 -> 0 [] a % 4 = 1 -> 1 [] a % 4 = 2 -> 0 [] OTHER -> -1

\* Entry (i, j) of A * B, rows and columns counted from 0
Dot(A, B, i, j) ==
  A[3*i + 1] * B[j + 1] + A[3*i + 2] * B[3 + j + 1] + A[3*i + 3] * B[6 + j + 1]

MatMul(A, B) ==
  << Dot(A, B, 0, 0), Dot(A, B, 0, 1), Dot(A, B, 0, 2),
     Dot(A, B, 1, 0), Dot(A, B, 1, 1), Dot(A, B, 1, 2),
     Dot(A, B, 2, 0), Dot(A, B, 2, 1), Dot(A, B, 2, 2) >>

\* euler2rot(roll, pitch, yaw) = Rz(yaw) * Ry(pitch) * Rx(roll)
euler2rot(e) ==
  LET cr == Cos4(e[1])  sr == Sin4(e[1])
      cp == Cos4(e[2])  sp == Sin4(e[2])
      cy == Cos4(e[3])  sy == Sin4(e[3])
      Rx == <<1, 0, 0,   0, cr, -sr,   0, sr, cr>>
      Ry == <<cp, 0, sp,   0, 1, 0,   -sp, 0, cp>>
      Rz == <<cy, -sy, 0,   sy, cy, 0,   0, 0, 1>>
  IN  MatMul(Rz, MatMul(Ry, Rx))

view_from_device == <<0, 1, 0,   0, 0, 1,   1, 0, 0>>

ZeroMat == <<0, 0, 0,   0, 0, 0,   0, 0, 0>>

-----------------------------------------------------------------------------
(* Messages: the fields ui.cc reads, with small payload sets *)

\* capnp defaults: what (*sm)[topic] holds before any message arrived
DefaultMsg(t) ==
  CASE t = "liveCalibration" -> [rpyCalib |-> <<>>, wideFromDeviceEuler |-> <<>>,
                                 calStatus |-> "UNCALIBRATED"]
    [] t = "pandaStates" -> <<>>
    [] t = "carControl" -> [alwaysOnLateral |-> FALSE]
    [] t = "carParams" -> [alwaysOnLateral |-> FALSE, openpilotLongitudinalControl |-> FALSE,
                           conditionalExperimentalMode |-> FALSE,
                           drivingPersonalitiesUIWheel |-> FALSE,
                           experimentalModeViaWheel |-> FALSE]
    [] t = "carState" -> [leftBlindspot |-> FALSE, rightBlindspot |-> FALSE,
                          leftBlinker |-> FALSE, rightBlinker |-> FALSE,
                          steeringAngleDeg |-> 0, toyotaCar |-> FALSE]
    [] t = "controlsState" -> [enabled |-> FALSE, experimentalMode |-> FALSE,
                               state |-> "DISABLED"]
    [] t = "gpsLocationExternal" -> [bearingDeg |-> 0]
    [] t = "lateralPlan" -> [laneWidthLeft |-> 0, laneWidthRight |-> 0]
    [] t = "longitudinalPlan" -> [desiredFollowDistance |-> 0, safeObstacleDistance |-> 0,
                                  safeObstacleDistanceStock |-> 0,
                                  stoppedEquivalenceFactor |-> 0,
                                  stoppedEquivalenceFactorStock |-> 0]
    [] t = "wideRoadCameraState" -> [sensor |-> "UNKNOWN", exposureValPercent |-> 0]
    [] OTHER -> [started |-> FALSE]

RpyLists == {<<>>} \cup {<<0, a, 0>> : a \in Angles}
WfdeLists == {<<>>} \cup {<<a, 0, 0>> : a \in Angles}

\* What an Eigen::Vector3d that was never assigned may hold
UninitVecs == {<<a, a, a>> : a \in Angles}

PandaUnits == {[pandaType |-> "UNKNOWN", ignitionLine |-> TRUE, ignitionCan |-> FALSE],
               [pandaType |-> "DOS", ignitionLine |-> FALSE, ignitionCan |-> FALSE],
               [pandaType |-> "DOS", ignitionLine |-> FALSE, ignitionCan |-> TRUE]}

SeqsUpTo(S, n) == UNION {[1..k -> S] : k \in 0..n}

Payloads(t) ==
  CASE t = "liveCalibration" ->
         [rpyCalib : RpyLists, wideFromDeviceEuler : WfdeLists,
          calStatus : {"UNCALIBRATED", "CALIBRATED"}]
    [] t = "pandaStates" -> SeqsUpTo(PandaUnits, MaxPandas)
    [] t = "carControl" -> [alwaysOnLateral : BOOLEAN]
    [] t = "carParams" ->
         {[alwaysOnLateral |-> a, openpilotLongitudinalControl |-> l,
           conditionalExperimentalMode |-> l, drivingPersonalitiesUIWheel |-> ~l,
           experimentalModeViaWheel |-> l] : a, l \in BOOLEAN}
    [] t = "carState" ->
         {[leftBlindspot |-> b, rightBlindspot |-> ~b, leftBlinker |-> ~b,
           rightBlinker |-> b, steeringAngleDeg |-> IF b THEN 15 ELSE -15,
           toyotaCar |-> b] : b \in BOOLEAN}
    [] t = "controlsState" ->
         {[enabled |-> e, experimentalMode |-> (st = "ENABLED"), state |-> st] :
            e \in BOOLEAN, st \in {"ENABLED", "PRE_ENABLED", "OVERRIDING"}}
    [] t = "gpsLocationExternal" -> [bearingDeg : {90, 180}]
    [] t = "lateralPlan" -> [laneWidthLeft : {3}, laneWidthRight : {3, 4}]
    [] t = "longitudinalPlan" ->
         {[desiredFollowDistance |-> 20, safeObstacleDistance |-> d,
           safeObstacleDistanceStock |-> d + 5, stoppedEquivalenceFactor |-> d - 15,
           stoppedEquivalenceFactorStock |-> d - 10] : d \in {20, 30}}
    [] t = "wideRoadCameraState" ->
         {[sensor |-> "AR0231", exposureValPercent |-> 100],
          [sensor |-> "OX03C10", exposureValPercent |-> 10]}
    [] OTHER -> [started : BOOLEAN]

\* One payload a topic (two of liveCalibration, each with one vector of the
\* wrong length), for the ticks with many fresh topics
FewPayloads(t) ==
  CASE t = "liveCalibration" ->
         {[rpyCalib |-> <<0, 1, 0>>, wideFromDeviceEuler |-> <<>>,
           calStatus |-> "CALIBRATED"],
          [rpyCalib |-> <<>>, wideFromDeviceEuler |-> <<1, 0, 0>>, calStatus |-> "CALIBRATED"]}
    [] t = "pandaStates" ->
         {<< [pandaType |-> "DOS", ignitionLine |-> FALSE, ignitionCan |-> TRUE] >>}
    [] t = "carControl" -> {[alwaysOnLateral |-> TRUE]}
    [] t = "carParams" ->
         {[alwaysOnLateral |-> TRUE, openpilotLongitudinalControl |-> TRUE,
           conditionalExperimentalMode |-> TRUE, drivingPersonalitiesUIWheel |-> TRUE,
           experimentalModeViaWheel |-> TRUE]}
    [] t = "carState" ->
         {[leftBlindspot |-> TRUE, rightBlindspot |-> FALSE, leftBlinker |-> FALSE,
           rightBlinker |-> TRUE, steeringAngleDeg |-> 15, toyotaCar |-> TRUE]}
    [] t = "controlsState" ->
         {[enabled |-> TRUE, experimentalMode |-> TRUE, state |-> "ENABLED"]}
    [] t = "gpsLocationExternal" -> {[bearingDeg |-> 90]}
    [] t = "lateralPlan" -> {[laneWidthLeft |-> 3, laneWidthRight |-> 4]}
    [] t = "longitudinalPlan" ->
         {[desiredFollowDistance |-> 20, safeObstacleDistance |-> 30,
           safeObstacleDistanceStock |-> 35, stoppedEquivalenceFactor |-> 15,
           stoppedEquivalenceFactorStock |-> 20]}
    [] t = "wideRoadCameraState" -> {[sensor |-> "OX03C10", exposureValPercent |-> 10]}
    [] OTHER -> {[started |-> TRUE]}

\* The message a tick sees for topic t: a new one, out of P(t), when t is fresh
Incoming(t, upd, P(_)) == IF t \in upd THEN P(t) ELSE {DefaultMsg(t)}

-----------------------------------------------------------------------------
(* Scene *)

SceneInit ==
  [view_from_calib |-> ZeroMat, view_from_wide_calib |-> ZeroMat,
   calibration_valid |-> FALSE, calibration_wide_valid |-> FALSE,
   pandaType |-> "UNKNOWN", ignition |-> FALSE,
   always_on_lateral_active |-> FALSE, always_on_lateral |-> FALSE,
   longitudinal_control |-> FALSE, conditional_experimental |-> FALSE,
   driving_personalities_ui_wheel |-> FALSE, experimental_mode_via_wheel |-> FALSE,
   blind_spot_left |-> FALSE, blind_spot_right |-> FALSE,
   turn_signal_left |-> FALSE, turn_signal_right |-> FALSE,
   steering_angle_deg |-> 0, toyota_car |-> FALSE,
   enabled |-> FALSE, experimental_mode |-> FALSE,
   bearing_deg |-> 0, lane_width_left |-> 0, lane_width_right |-> 0,
   desired_follow |-> 0, obstacle_distance |-> 0, obstacle_distance_stock |-> 0,
   stopped_equivalence |-> 0, stopped_equivalence_stock |-> 0,
   light_sensor |-> 0, started |-> FALSE, started_frame |-> 0,
   blind_spot_path |-> FALSE, custom_theme |-> FALSE, frog_signals |-> FALSE, developer_ui |-> 0,
   rotating_wheel |-> FALSE, compass |-> FALSE, screen_brightness |-> 0]

-----------------------------------------------------------------------------
(* update_state, block by block; sc is the scene so far, upd the fresh topics *)

\* rpy_u, wfde_u: the contents of the unassigned vectors rpy and wfde
UpdateCalibration(sc, upd, m, rpy_u, wfde_u) ==
  IF "liveCalibration" \in upd
  THEN LET rpy == IF Len(m.rpyCalib) = 3 THEN m.rpyCalib ELSE rpy_u
           wfde == IF Len(m.wideFromDeviceEuler) = 3 THEN m.wideFromDeviceEuler ELSE wfde_u
           device_from_calib == euler2rot(rpy)
           wide_from_device == euler2rot(wfde)
       IN  [sc EXCEPT
              !.view_from_calib = MatMul(view_from_device, device_from_calib),
              !.view_from_wide_calib =
                 MatMul(MatMul(view_from_device, wide_from_device), device_from_calib),
              !.calibration_valid = (m.calStatus = "CALIBRATED"),
              !.calibration_wide_valid = (Len(m.wideFromDeviceEuler) = 3)]
  ELSE sc

\* Faulty variant: only the first unit is asked
AnyIgnition_FirstOnly(pandaStates) ==
  pandaStates[1].ignitionLine \/ pandaStates[1].ignitionCan

AnyIgnition(pandaStates) ==
  \E i \in 1..Len(pandaStates) : pandaStates[i].ignitionLine \/ pandaStates[i].ignitionCan

\* Faulty variant: stale one tick early
PandaStale_AtLeast(f, rcv) == (f - rcv) >= PandaStaleFactor * UI_FREQ

\* The staleness test of the pandaStates block
PandaStale(f, rcv) == (f - rcv) > PandaStaleFactor * UI_FREQ

\* f is sm->frame, rcv is sm->rcv_frame("pandaStates"), both after update_sockets
UpdatePandaStates(sc, upd, m, f, rcv) ==
  IF "pandaStates" \in upd
  THEN IF Len(m) > 0
       THEN LET t == m[1].pandaType
            IN  IF t # "UNKNOWN"
                THEN [sc EXCEPT !.pandaType = t, !.ignition = AnyIgnition(m)]
                ELSE [sc EXCEPT !.pandaType = t]
       ELSE sc
  ELSE IF PandaStale(f, rcv)
       THEN [sc EXCEPT !.pandaType = "UNKNOWN"]
       ELSE sc

UpdateCarControl(sc, upd, m) ==
  IF "carControl" \in upd /\ sc.always_on_lateral
  THEN [sc EXCEPT !.always_on_lateral_active = (~sc.enabled /\ m.alwaysOnLateral)]
  ELSE sc

UpdateCarParams(sc, upd, m) ==
  IF "carParams" \in upd
  THEN LET s1 == [sc EXCEPT !.always_on_lateral = m.alwaysOnLateral,
                            !.longitudinal_control = m.openpilotLongitudinalControl]
       IN  IF s1.longitudinal_control
           THEN [s1 EXCEPT !.conditional_experimental = m.conditionalExperimentalMode,
                           !.driving_personalities_ui_wheel = m.drivingPersonalitiesUIWheel,
                           !.experimental_mode_via_wheel = m.experimentalModeViaWheel]
           ELSE s1
  ELSE sc

UpdateCarState(sc, upd, m) ==
  IF "carState" \in upd
  THEN LET s1 == IF sc.blind_spot_path \/ sc.frog_signals
                 THEN [sc EXCEPT !.blind_spot_left = m.leftBlindspot,
                                 !.blind_spot_right = m.rightBlindspot]
                 ELSE sc
           s2 == IF (sc.developer_ui # 0) \/ sc.frog_signals
                 THEN [s1 EXCEPT !.turn_signal_left = m.leftBlinker,
                                 !.turn_signal_right = m.rightBlinker]
                 ELSE s1
           s3 == IF sc.blind_spot_path \/ (sc.developer_ui # 0) \/ sc.rotating_wheel
                 THEN [s2 EXCEPT !.steering_angle_deg = m.steeringAngleDeg]
                 ELSE s2
       IN  IF sc.started THEN [s3 EXCEPT !.toyota_car = m.toyotaCar] ELSE s3
  ELSE sc

UpdateControlsState(sc, upd, m) ==
  IF "controlsState" \in upd
  THEN [sc EXCEPT !.enabled = m.enabled, !.experimental_mode = m.experimentalMode]
  ELSE sc

UpdateGps(sc, upd, m) ==
  IF "gpsLocationExternal" \in upd /\ sc.compass
  THEN [sc EXCEPT !.bearing_deg = m.bearingDeg]
  ELSE sc

UpdateLateralPlan(sc, upd, m) ==
  IF "lateralPlan" \in upd /\ (sc.blind_spot_path \/ sc.developer_ui # 0)
  THEN [sc EXCEPT !.lane_width_left = m.laneWidthLeft, !.lane_width_right = m.laneWidthRight]
  ELSE sc

UpdateLongitudinalPlan(sc, upd, m) ==
  IF "longitudinalPlan" \in upd /\ sc.developer_ui # 0
  THEN [sc EXCEPT !.desired_follow = m.desiredFollowDistance,
                  !.obstacle_distance = m.safeObstacleDistance,
                  !.obstacle_distance_stock = m.safeObstacleDistanceStock,
                  !.stopped_equivalence = m.stoppedEquivalenceFactor,
                  !.stopped_equivalence_stock = m.stoppedEquivalenceFactorStock]
  ELSE sc

LightSensor(m) ==
  LET scale == IF m.sensor = "AR0231" THEN 6 ELSE 1
  IN  Max(100 - scale * m.exposureValPercent, 0)

\* Faulty variant: the light sensor is recomputed on every tick
UpdateWideCamera_Always(sc, upd, m) == [sc EXCEPT !.light_sensor = LightSensor(m)]

UpdateWideCamera(sc, upd, m) ==
  IF "wideRoadCameraState" \in upd
  THEN [sc EXCEPT !.light_sensor = LightSensor(m)]
  ELSE sc

\* Faulty variant: started follows deviceState alone
UpdateStarted_NoIgnition(sc, dev) == [sc EXCEPT !.started = dev.started]

\* dev is the latest deviceState message, fresh or not
UpdateStarted(sc, dev) == [sc EXCEPT !.started = (dev.started /\ sc.ignition)]

\* in is the tick's input: in.m[t] the message of topic t, in.rpy_u / in.wfde_u
\* the contents of the unassigned calibration vectors
update_state(sc, upd, in, f, rcv, dev) ==
  LET s1 == UpdateCalibration(sc, upd, in.m["liveCalibration"], in.rpy_u, in.wfde_u)
      s2 == UpdatePandaStates(s1, upd, in.m["pandaStates"], f, rcv)
      s3 == UpdateCarControl(s2, upd, in.m["carControl"])
      s4 == UpdateCarParams(s3, upd, in.m["carParams"])
      s5 == UpdateCarState(s4, upd, in.m["carState"])
      s6 == UpdateControlsState(s5, upd, in.m["controlsState"])
      s7 == UpdateGps(s6, upd, in.m["gpsLocationExternal"])
      s8 == UpdateLateralPlan(s7, upd, in.m["lateralPlan"])
      s9 == UpdateLongitudinalPlan(s8, upd, in.m["longitudinalPlan"])
      s10 == UpdateWideCamera(s9, upd, in.m["wideRoadCameraState"])
  IN  UpdateStarted(s10, dev)

-----------------------------------------------------------------------------
(* UIState::updateStatus *)

\* Faulty variant: the always-on-lateral test comes first
DerivedStatus_LateralFirst(sc, cs) ==
  IF sc.always_on_lateral_active
  THEN STATUS_LATERAL_ACTIVE
  ELSE IF cs.state = "PRE_ENABLED" \/ cs.state = "OVERRIDING"
       THEN STATUS_OVERRIDE
       ELSE IF cs.enabled THEN STATUS_ENGAGED ELSE STATUS_DISENGAGED

\* The status a fresh controlsState message cs gives while started
DerivedStatus(sc, cs) ==
  IF cs.state = "PRE_ENABLED" \/ cs.state = "OVERRIDING"
  THEN STATUS_OVERRIDE
  ELSE IF sc.always_on_lateral_active
       THEN STATUS_LATERAL_ACTIVE
       ELSE IF cs.enabled THEN STATUS_ENGAGED ELSE STATUS_DISENGAGED

\* Faulty variant: the first tick is not treated as a transition
StartedEdge_NoFirstFrame(sc, sp, f) == sc.started # sp

\* The onroad/offroad transition test
StartedEdge(sc, sp, f) == sc.started # sp \/ f = 1

\* Faulty variant: the transition block leaves status alone
updateStatus_NoReset(sc, st, sp, upd, cs, f) ==
  LET st1 == IF sc.started /\ "controlsState" \in upd THEN DerivedStatus(sc, cs) ELSE st
  IN  IF StartedEdge(sc, sp, f)
      THEN [status |-> st1,
            scene |-> IF sc.started THEN [sc EXCEPT !.started_frame = f] ELSE sc,
            started_prev |-> sc.started,
            emitted |-> << [sig |-> "offroadTransition", arg |-> ~sc.started] >>]
      ELSE [status |-> st1, scene |-> sc, started_prev |-> sp, emitted |-> << >>]

\* Faulty variant: status is derived from a fresh controlsState also while not started
updateStatus_AlwaysDerive(sc, st, sp, upd, cs, f) ==
  LET st1 == IF "controlsState" \in upd THEN DerivedStatus(sc, cs) ELSE st
  IN  IF StartedEdge(sc, sp, f)
      THEN [status |-> IF sc.started THEN STATUS_DISENGAGED ELSE st1,
            scene |-> IF sc.started THEN [sc EXCEPT !.started_frame = f] ELSE sc,
            started_prev |-> sc.started,
            emitted |-> << [sig |-> "offroadTransition", arg |-> ~sc.started] >>]
      ELSE [status |-> st1, scene |-> sc, started_prev |-> sp, emitted |-> << >>]

\* sc: scene after update_state, st: status, sp: started_prev, cs: the
\* controlsState message, f: sm->frame
updateStatus(sc, st, sp, upd, cs, f) ==
  LET st1 == IF sc.started /\ "controlsState" \in upd THEN DerivedStatus(sc, cs) ELSE st
  IN  IF StartedEdge(sc, sp, f)
      THEN [status |-> IF sc.started THEN STATUS_DISENGAGED ELSE st1,
            scene |-> IF sc.started THEN [sc EXCEPT !.started_frame = f] ELSE sc,
            started_prev |-> sc.started,
            emitted |-> << [sig |-> "offroadTransition", arg |-> ~sc.started] >>]
      ELSE [status |-> st1, scene |-> sc, started_prev |-> sp, emitted |-> << >>]

-----------------------------------------------------------------------------
(* ui_update_params and ui_update_live_params: the fields this file reads back *)

\* Values the parameter store may hold
ParamStores ==
  { [DefaultParamsSet |-> TRUE, CustomTheme |-> TRUE, CustomSignals |-> 1, Compass |-> TRUE,
     CustomRoadUI |-> TRUE, BlindSpotPath |-> TRUE, DeveloperUI |-> 1,
     RotatingWheel |-> TRUE, ScreenBrightness |-> 50],
    [DefaultParamsSet |-> TRUE, CustomTheme |-> FALSE, CustomSignals |-> 1, Compass |-> FALSE,
     CustomRoadUI |-> FALSE, BlindSpotPath |-> TRUE, DeveloperUI |-> 0,
     RotatingWheel |-> FALSE, ScreenBrightness |-> 101],
    [DefaultParamsSet |-> FALSE, CustomTheme |-> FALSE, CustomSignals |-> 0, Compass |-> FALSE,
     CustomRoadUI |-> FALSE, BlindSpotPath |-> FALSE, DeveloperUI |-> 0,
     RotatingWheel |-> FALSE, ScreenBrightness |-> 0] }

LiveParams ==
  {[ScreenBrightness |-> b, DeveloperUI |-> d, CustomSignals |-> 1 - d] :
     b \in {0, 50, 101}, d \in {0, 1}}

NoParams == [ScreenBrightness |-> 0, DeveloperUI |-> 0, CustomSignals |-> 0]

\* the toggles block of ui_update_params
CheckToggles(sc, p) ==
  LET custom_signals == IF p.CustomTheme THEN p.CustomSignals ELSE 0
  IN  [sc EXCEPT !.custom_theme = p.CustomTheme,
                 !.frog_signals = (custom_signals = 1),
                 !.compass = p.Compass,
                 !.blind_spot_path = (p.CustomRoadUI /\ p.BlindSpotPath),
                 !.developer_ui = p.DeveloperUI,
                 !.rotating_wheel = p.RotatingWheel,
                 !.screen_brightness = p.ScreenBrightness]

\* flag: params_memory FrogPilotTogglesUpdated, ltc: live_toggles_checked
ui_update_live_params(sc, flag, ltc, p) ==
  IF flag
  THEN [scene |-> [sc EXCEPT !.frog_signals = IF sc.custom_theme
                                                 THEN p.CustomSignals = 1
                                                 ELSE sc.frog_signals,
                             !.developer_ui = p.DeveloperUI,
                             !.screen_brightness = p.ScreenBrightness],
        flag |-> IF ltc /\ sc.enabled THEN FALSE ELSE flag,
        ltc |-> ~ltc]
  ELSE [scene |-> sc, flag |-> flag, ltc |-> ltc]

-----------------------------------------------------------------------------
(* Device *)

\* CIE 1931 curve and the scaling to 10..100 percent, in integer arithmetic
CieBrightness(light_sensor) ==
  LET c == IF light_sensor <= 8
           THEN (100 * 10 * light_sensor) \div 9033
           ELSE (100 * (light_sensor + 16) * (light_sensor + 16) * (light_sensor + 16))
                  \div (116 * 116 * 116)
  IN  Clamp(c, MinClippedBrightness, MaxClippedBrightness)

clipped_brightness(sc) ==
  IF sc.started THEN CieBrightness(sc.light_sensor) ELSE BACKLIGHT_OFFROAD

LightValues == {0} \cup {LightSensor(m) : m \in Payloads("wideRoadCameraState")}

\* The values the smoothed brightness takes in the model
FilterLevels == {BACKLIGHT_OFFROAD} \cup {CieBrightness(l) : l \in LightValues}

\* FirstOrderFilter::update: the new value lies between the old value and the
\* input (how far it moves depends on the time constant)
FilterUpdate(x, input) == {y \in FilterLevels : Min(x, input) <= y /\ y <= Max(x, input)}

\* Faulty variant: the tap floor is left out
OfferedBrightness_NoFloor(sc, fx, aw) ==
  IF ~aw
  THEN 0
  ELSE IF sc.screen_brightness <= MaxScreenBrightness
       THEN sc.screen_brightness
       ELSE fx

\* The value Device::updateBrightness offers to the hardware; fx is the
\* result of brightness_filter.update, aw is awake
OfferedBrightness(sc, fx, aw) ==
  IF ~aw
  THEN 0
  ELSE IF sc.screen_brightness <= MaxScreenBrightness
       THEN Max(TapBrightness, sc.screen_brightness)
       ELSE fx

\* Faulty variant: a write is started whenever the value changed
DispatchWrite_Unguarded(b, last, running) == b # last

\* Whether Device::updateBrightness starts a hardware write of b
DispatchWrite(b, last, running) == b # last /\ ~running

\* Device::resetInteractiveTimeout
ResetValue(timeout, ign_on) ==
  (IF timeout = -1
   THEN (IF ign_on THEN IgnitionOnTimeout ELSE IgnitionOffTimeout)
   ELSE timeout) * UI_FREQ

\* Faulty variant: the reset on the ignition-off edge reads ignition_on before it is
\* updated
Countdown_StaleIgnition(sc, ign_on, it) ==
  LET ignition_just_turned_off == ~sc.ignition /\ ign_on
  IN  IF ignition_just_turned_off
      THEN [timeout |-> ResetValue(-1, ign_on), emitted |-> << >>]
      ELSE IF it > 0
           THEN [timeout |-> it - 1,
                 emitted |-> IF it - 1 = 0
                             THEN << [sig |-> "interactiveTimeout", arg |-> TRUE] >>
                             ELSE << >>]
           ELSE [timeout |-> it, emitted |-> << >>]

\* The countdown part of Device::updateWakefulness
Countdown(sc, ign_on, it) ==
  LET ignition_just_turned_off == ~sc.ignition /\ ign_on
  IN  IF ignition_just_turned_off
      THEN [timeout |-> ResetValue(-1, sc.ignition), emitted |-> << >>]
      ELSE IF it > 0
           THEN [timeout |-> it - 1,
                 emitted |-> IF it - 1 = 0
                             THEN << [sig |-> "interactiveTimeout", arg |-> TRUE] >>
                             ELSE << >>]
           ELSE [timeout |-> it, emitted |-> << >>]

\* Faulty variant: ignition keeps the screen awake whatever screen_brightness is
WantAwake_IgnoreBrightness(sc, it) == sc.ignition \/ it > 0

\* The argument Device::updateWakefulness gives to setAwake
WantAwake(sc, it) ==
  IF sc.screen_brightness # 0 THEN sc.ignition \/ it > 0 ELSE it > 0

\* Device::setAwake: what it emits
setAwake(on, aw) ==
  IF on # aw
  THEN << [sig |-> "set_display_power", arg |-> on],
          [sig |-> "displayPowerChanged", arg |-> on] >>
  ELSE << >>

-----------------------------------------------------------------------------
(* Model geometry: calib_frame_to_full_frame, get_path_length_idx,
   update_line_data *)

\* The result of a float division n / d of two integer-valued floats: a
\* fraction with a positive denominator, an infinity or NaN
FloatDiv(n, d) ==
  IF d > 0 THEN [k |-> "fin", n |-> n, d |-> d]
  ELSE IF d < 0 THEN [k |-> "fin", n |-> 0 - n, d |-> 0 - d]
  ELSE IF n > 0 THEN [k |-> "pinf", n |-> 0, d |-> 0]
  ELSE IF n < 0 THEN [k |-> "ninf", n |-> 0, d |-> 0]
  ELSE [k |-> "nan", n |-> 0, d |-> 0]

\* a < b and a > b on floats, b an integer: false when a is NaN
FloatLtInt(a, b) == a.k = "ninf" \/ (a.k = "fin" /\ a.n < b * a.d)
FloatGtInt(a, b) == a.k = "pinf" \/ (a.k = "fin" /\ a.n > b * a.d)

\* a > b on floats: false when one of them is NaN
FloatGt(a, b) ==
  /\ a.k # "nan" /\ b.k # "nan"
  /\ \/ (a.k = "pinf" /\ b.k # "pinf")
     \/ (b.k = "ninf" /\ a.k # "ninf")
     \/ (a.k = "fin" /\ b.k = "fin" /\ a.n * b.d > b.n * a.d)

\* Camera intrinsics and frame buffer size
FCAM_INTRINSIC_MATRIX == <<2648, 0, 964, 0, 2648, 604, 0, 0, 1>>
ECAM_INTRINSIC_MATRIX == <<567, 0, 964, 0, 567, 604, 0, 0, 1>>
fb_w == 2160
fb_h == 1080

matvecmul3(M, v) ==
  << M[1] * v[1] + M[2] * v[2] + M[3] * v[3],
     M[4] * v[1] + M[5] * v[2] + M[6] * v[3],
     M[7] * v[1] + M[8] * v[2] + M[9] * v[3] >>

\* QRectF::contains for the clip region: a point is refused when a coordinate
\* compares below or above the bounds, so a NaN coordinate is not refused
ClipContains(x, y) ==
  /\ ~(FloatLtInt(x, 0 - ClipMargin) \/ FloatGtInt(x, fb_w + ClipMargin))
  /\ ~(FloatLtInt(y, 0 - ClipMargin) \/ FloatGtInt(y, fb_h + ClipMargin))

\* calib_frame_to_full_frame: the return value and *out; car_space_transform
\* is the identity a QTransform is constructed as
calib_frame_to_full_frame(sc, wide_cam, in_x, in_y, in_z) ==
  LET Ep == matvecmul3(IF wide_cam THEN sc.view_from_wide_calib ELSE sc.view_from_calib,
                       <<in_x, in_y, in_z>>)
      KEp == matvecmul3(IF wide_cam THEN ECAM_INTRINSIC_MATRIX ELSE FCAM_INTRINSIC_MATRIX, Ep)
      px == FloatDiv(KEp[1], KEp[3])
      py == FloatDiv(KEp[2], KEp[3])
  IN  [ok |-> ClipContains(px, py), x |-> px, y |-> py]

\* Faulty variant: the comparison is turned around
get_path_length_idx_Flipped(line, path_height) ==
  LET RECURSIVE Scan(_, _)
      Scan(i, max_idx) ==
        IF i < TRAJECTORY_SIZE /\ line[i + 1].x >= path_height
        THEN Scan(i + 1, i)
        ELSE max_idx
  IN  Scan(1, 0)

\* Faulty variant: the comparison is strict
get_path_length_idx_Strict(line, path_height) ==
  LET RECURSIVE Scan(_, _)
      Scan(i, max_idx) ==
        IF i < TRAJECTORY_SIZE /\ line[i + 1].x < path_height
        THEN Scan(i + 1, i)
        ELSE max_idx
  IN  Scan(1, 0)

\* get_path_length_idx; line[i + 1] is sample i
get_path_length_idx(line, path_height) ==
  LET RECURSIVE Scan(_, _)
      Scan(i, max_idx) ==
        IF i < TRAJECTORY_SIZE /\ line[i + 1].x <= path_height
        THEN Scan(i + 1, i)
        ELSE max_idx
  IN  Scan(1, 0)

\* A polygon vertex: the projected point, with the sample and the side it
\* came from
Vertex(p, i, side) == [x |-> p.x, y |-> p.y, i |-> i, side |-> side]

\* update_line_data: the polygon it stores in *pvd
update_line_data(sc, wide_cam, line, y_off, z_off, max_idx, allow_invert) ==
  LET RECURSIVE Loop(_, _, _)
      Loop(i, left_points, right_points) ==
        IF i > max_idx THEN left_points \o right_points
        ELSE IF line[i + 1].x < 0 THEN Loop(i + 1, left_points, right_points)
        ELSE LET pt == line[i + 1]
                 left == calib_frame_to_full_frame(sc, wide_cam, pt.x, pt.y - y_off,
                                                   pt.z + z_off)
                 right == calib_frame_to_full_frame(sc, wide_cam, pt.x, pt.y + y_off,
                                                    pt.z + z_off)
             IN  IF left.ok /\ right.ok
                 THEN IF /\ ~allow_invert /\ Len(left_points) > 0
                         /\ FloatGt(left.y, left_points[Len(left_points)].y)
                      THEN Loop(i + 1, left_points, right_points)
                      ELSE Loop(i + 1, Append(left_points, Vertex(left, i, "left")),
                                << Vertex(right, i, "right") >> \o right_points)
                 ELSE Loop(i + 1, left_points, right_points)
  IN  Loop(0, << >>, << >>)

\* The inputs of the calls
Samples == [x : -1..MaxX, y : {0}, z : 0..MaxZ]
Trajectories == [1..TRAJECTORY_SIZE -> Samples]

NoCall == [fn |-> "none", done |-> TRUE]

LineDataCalls ==
  [fn : {"update_line_data"}, done : {FALSE}, line : Trajectories, y_off : 0..MaxOff,
   z_off : 0..MaxOff, max_idx : 0..(TRAJECTORY_SIZE - 1), allow_invert : BOOLEAN,
   wide_cam : BOOLEAN, pvd : {<< >>}]

PathLengthCalls ==
  [fn : {"get_path_length_idx"}, done : {FALSE}, line : Trajectories,
   path_height : -1..(MaxX + 1), max_idx : {0}]

\* Distances are counted in twentieths of a metre, the unit in which
\* lead_d * 0.35 is a whole number for every whole number of metres
DistanceUnit == 20

MIN_DRAW_DISTANCE == 10 * DistanceUnit
MAX_DRAW_DISTANCE == 100 * DistanceUnit

\* std::clamp(v, lo, hi): undefined when hi < lo, where builds return either
\* bound
std_clamp(v, lo, hi) == IF hi < lo THEN {lo, hi} ELSE {Clamp(v, lo, hi)}

\* update_model, the lead block: max_distance after the clamp
LeadClamp(dRel, max_distance) ==
  LET lead_d == dRel * 2
  IN  std_clamp(lead_d - Min((lead_d * 35) \div 100, 10 * DistanceUnit), 0, max_distance)

\* update_model: max_distance as first computed (base) and as used for the
\* path and path-edge bands; x_last is plan_position.getX()[TRAJECTORY_SIZE - 1]
update_model(unlimited_road_ui_length, x_last, lead_status, dRel) ==
  LET base == IF unlimited_road_ui_length
              THEN x_last
              ELSE Clamp(x_last, MIN_DRAW_DISTANCE, MAX_DRAW_DISTANCE)
  IN  {[base |-> base, max_distance |-> r] :
         r \in (IF lead_status THEN LeadClamp(dRel, base) ELSE {base})}

\* Terminal forward distances of the plan and lead distances, in metres
TerminalX == {-1, 5, 50, 150}
LeadDistances == {-1, 0, 3, 10, 20, 60}

ModelCalls ==
  [fn : {"update_model"}, done : {FALSE}, unlimited_road_ui_length : BOOLEAN,
   x_last : {m * DistanceUnit : m \in TerminalX}, lead_status : BOOLEAN,
   dRel : {m * DistanceUnit : m \in LeadDistances}, base : {0}, max_distance : {0}]

-----------------------------------------------------------------------------
(* Initial state: after UIState::UIState and Device::Device *)

InitUI ==
  /\ frame = 0
  /\ updated = {}
  /\ rcv_frame = 0
  /\ msgs = [deviceState |-> DefaultMsg("deviceState"),
             controlsState |-> DefaultMsg("controlsState")]
  /\ scene = SceneInit
  /\ status = STATUS_DISENGAGED
  /\ started_prev = FALSE
  /\ default_params_set = FALSE
  /\ toggles_checked = FALSE
  /\ live_toggles_checked = FALSE
  /\ FrogPilotTogglesUpdated = FALSE
  /\ awake = TRUE                                   \* setAwake(true)
  /\ interactive_timeout = ResetValue(-1, FALSE)    \* resetInteractiveTimeout()
  /\ ignition_on = FALSE
  /\ last_brightness = 0
  /\ brightness_filter = BACKLIGHT_OFFROAD
  /\ future_running = FALSE
  /\ in_flight = << >>
  /\ hw_brightness = -1
  /\ display_power = TRUE
  /\ brightness = 0
  /\ zero_due = FALSE
  /\ seen = {}
  /\ emitted = << >>

Init == InitUI /\ call = NoCall

-----------------------------------------------------------------------------
(* Actions *)

\* UIState::update up to the uiUpdate signal: the new values of sm and UIState.
\* upd: the topics with a new message, in: the messages and the other inputs,
\* f: the value update_sockets gives sm->frame
UIState_update(upd, in, f) ==
  LET rcv == IF "pandaStates" \in upd THEN f ELSE rcv_frame
      dev == IF "deviceState" \in upd THEN in.m["deviceState"] ELSE msgs.deviceState
      cs == IF "controlsState" \in upd THEN in.m["controlsState"] ELSE msgs.controlsState
      sc1 == update_state(scene, upd, in, f, rcv, dev)
      us == updateStatus(sc1, status, started_prev, upd, cs, f)
      lp == ui_update_live_params(us.scene, FrogPilotTogglesUpdated,
                                  live_toggles_checked, in.params)
  IN  [frame |-> f, rcv_frame |-> rcv, msgs |-> [deviceState |-> dev, controlsState |-> cs],
       scene |-> lp.scene, status |-> us.status, started_prev |-> us.started_prev,
       flag |-> lp.flag, ltc |-> lp.ltc,
       emitted |-> us.emitted
                     \o (IF f % UI_FREQ = 0
                         THEN << [sig |-> "watchdog_kick", arg |-> TRUE] >>
                         ELSE << >>)
                     \o << [sig |-> "uiUpdate", arg |-> TRUE] >>]

\* Faulty variant: last_brightness is stored outside the isRunning test
updateBrightness_EagerLast(sc, fx) ==
  LET b == OfferedBrightness(sc, fx, awake)
      go == DispatchWrite(b, last_brightness, future_running)
  IN  [brightness |-> b,
       in_flight |-> IF go THEN Append(in_flight, b) ELSE in_flight,
       future_running |-> (go \/ future_running),
       last_brightness |-> b,
       emitted |-> IF go THEN << [sig |-> "set_brightness", arg |-> b] >> ELSE << >>]

\* Device::updateBrightness; fx is the result of brightness_filter.update
updateBrightness(sc, fx) ==
  LET b == OfferedBrightness(sc, fx, awake)
      go == DispatchWrite(b, last_brightness, future_running)
  IN  [brightness |-> b,
       in_flight |-> IF go THEN Append(in_flight, b) ELSE in_flight,
       future_running |-> (go \/ future_running),
       last_brightness |-> IF go THEN b ELSE last_brightness,
       emitted |-> IF go THEN << [sig |-> "set_brightness", arg |-> b] >> ELSE << >>]

\* Device::updateWakefulness
updateWakefulness(sc) ==
  LET cd == Countdown(sc, ignition_on, interactive_timeout)
      on == WantAwake(sc, cd.timeout)
  IN  [ignition_on |-> sc.ignition, interactive_timeout |-> cd.timeout, awake |-> on,
       display_power |-> IF on # awake THEN on ELSE display_power,
       emitted |-> cd.emitted \o setAwake(on, awake)]

\* One timer tick: UIState::update, then Device::update through uiUpdate
Tick(upd, in, f) ==
  \E ui \in {UIState_update(upd, in, f)} :
  \E fx \in FilterUpdate(brightness_filter, clipped_brightness(ui.scene)) :
  \E ub \in {updateBrightness(ui.scene, fx)}, uw \in {updateWakefulness(ui.scene)} :
    /\ frame' = ui.frame
    /\ updated' = upd
    /\ rcv_frame' = ui.rcv_frame
    /\ msgs' = ui.msgs
    /\ scene' = ui.scene
    /\ status' = ui.status
    /\ started_prev' = ui.started_prev
    /\ FrogPilotTogglesUpdated' = ui.flag
    /\ live_toggles_checked' = ui.ltc
    /\ UNCHANGED <<default_params_set, toggles_checked>>
    /\ brightness_filter' = fx
    /\ brightness' = ub.brightness
    /\ in_flight' = ub.in_flight
    /\ future_running' = ub.future_running
    /\ last_brightness' = ub.last_brightness
    /\ ignition_on' = uw.ignition_on
    /\ interactive_timeout' = uw.interactive_timeout
    /\ awake' = uw.awake
    /\ display_power' = uw.display_power
    /\ zero_due' = IF awake /\ ~uw.awake THEN TRUE
                    ELSE IF uw.awake \/ ~future_running THEN FALSE
                    ELSE zero_due
    /\ seen' = {<<t, in.m[t]>> : t \in in.watch \cap upd}
    /\ emitted' = ui.emitted \o ub.emitted \o uw.emitted
    /\ UNCHANGED <<hw_brightness, call>>

\* The inputs of a tick whose fresh topics are one of FreshSets, with payloads
\* out of P; the fresh messages of the topics in W are kept in seen
TickWatch(FreshSets, P(_), W, f) ==
  \E upd \in FreshSets :
  \E mCal \in Incoming("liveCalibration", upd, P), mPan \in Incoming("pandaStates", upd, P),
     mCtl \in Incoming("carControl", upd, P), mPar \in Incoming("carParams", upd, P),
     mCar \in Incoming("carState", upd, P), mCs \in Incoming("controlsState", upd, P),
     mGps \in Incoming("gpsLocationExternal", upd, P), mLat \in Incoming("lateralPlan", upd, P),
     mLon \in Incoming("longitudinalPlan", upd, P), mCam \in Incoming("wideRoadCameraState", upd, P),
     mDev \in Incoming("deviceState", upd, P) :
  \E ru \in (IF Len(mCal.rpyCalib) # 3 /\ "liveCalibration" \in upd
             THEN UninitVecs ELSE {<<0, 0, 0>>}),
     wu \in (IF Len(mCal.wideFromDeviceEuler) # 3 /\ "liveCalibration" \in upd
             THEN UninitVecs ELSE {<<0, 0, 0>>}),
     p \in (IF FrogPilotTogglesUpdated THEN LiveParams ELSE {NoParams}) :
  \E in \in {[m |-> [liveCalibration |-> mCal, pandaStates |-> mPan, carControl |-> mCtl,
                     carParams |-> mPar, carState |-> mCar, controlsState |-> mCs,
                     gpsLocationExternal |-> mGps, lateralPlan |-> mLat,
                     longitudinalPlan |-> mLon, wideRoadCameraState |-> mCam,
                     deviceState |-> mDev],
              rpy_u |-> ru, wfde_u |-> wu, params |-> p, watch |-> W]} :
    Tick(upd, in, f)

TickOn(FreshSets, P(_), f) == TickWatch(FreshSets, P, {}, f)

\* The background Hardware::set_brightness call number i returns
WriteDone(i) ==
  /\ i \in 1..Len(in_flight)
  /\ hw_brightness' = in_flight[i]
  /\ in_flight' = [k \in 1..(Len(in_flight) - 1) |->
                     IF k < i THEN in_flight[k] ELSE in_flight[k + 1]]
  /\ future_running' = IF i = Len(in_flight) THEN FALSE ELSE future_running
  /\ emitted' = << >>
  /\ UNCHANGED <<zero_due, seen, call>>
  /\ UNCHANGED uiVars
  /\ UNCHANGED <<awake, interactive_timeout, ignition_on, last_brightness,
                 brightness_filter, display_power, brightness>>

\* Device::resetInteractiveTimeout called from outside (a screen touch)
ResetTimeouts == {-1, 1}

resetInteractiveTimeout(timeout) ==
  /\ interactive_timeout' = ResetValue(timeout, ignition_on)
  /\ emitted' = << >>
  /\ UNCHANGED <<zero_due, seen, call>>
  /\ UNCHANGED uiVars
  /\ UNCHANGED <<awake, ignition_on, last_brightness, brightness_filter, future_running,
                 in_flight, hw_brightness, display_power, brightness>>

\* ui_update_params called from outside, p the parameter store
ui_update_params(p) ==
  LET dps == IF ~default_params_set THEN p.DefaultParamsSet ELSE default_params_set
      check == ~toggles_checked /\ dps
  IN  /\ default_params_set' = dps
      /\ scene' = IF check THEN CheckToggles(scene, p) ELSE scene
      /\ toggles_checked' = (check \/ toggles_checked)
      /\ emitted' = << >>
      /\ UNCHANGED <<zero_due, seen, call>>
      /\ UNCHANGED <<frame, updated, rcv_frame, msgs, status, started_prev,
                     live_toggles_checked, FrogPilotTogglesUpdated>>
      /\ UNCHANGED <<awake, interactive_timeout, ignition_on, last_brightness,
                     brightness_filter, future_running, in_flight, hw_brightness,
                     display_power, brightness>>

\* The drawing code runs the pending update_line_data call on the scene as
\* it is
RunLineData ==
  /\ call.fn = "update_line_data" /\ ~call.done
  /\ call' = [call EXCEPT
                !.done = TRUE,
                !.pvd = update_line_data(scene, call.wide_cam, call.line, call.y_off,
                                         call.z_off, call.max_idx, call.allow_invert)]
  /\ emitted' = << >>
  /\ UNCHANGED <<uiVars, zero_due, seen>>
  /\ UNCHANGED <<awake, interactive_timeout, ignition_on, last_brightness,
                 brightness_filter, future_running, in_flight, hw_brightness,
                 display_power, brightness>>

\* The drawing code runs the pending get_path_length_idx call
RunPathLength ==
  /\ call.fn = "get_path_length_idx" /\ ~call.done
  /\ call' = [call EXCEPT !.done = TRUE,
                          !.max_idx = get_path_length_idx(call.line, call.path_height)]
  /\ emitted' = << >>
  /\ UNCHANGED <<uiVars, zero_due, seen>>
  /\ UNCHANGED <<awake, interactive_timeout, ignition_on, last_brightness,
                 brightness_filter, future_running, in_flight, hw_brightness,
                 display_power, brightness>>

\* A modelV2 message arrives and update_model computes the draw distance
RunModel ==
  /\ call.fn = "update_model" /\ ~call.done
  /\ \E r \in update_model(call.unlimited_road_ui_length, call.x_last,
                           call.lead_status, call.dRel) :
       call' = [call EXCEPT !.done = TRUE, !.base = r.base,
                            !.max_distance = r.max_distance]
  /\ emitted' = << >>
  /\ UNCHANGED <<uiVars, zero_due, seen>>
  /\ UNCHANGED <<awake, interactive_timeout, ignition_on, last_brightness,
                 brightness_filter, future_running, in_flight, hw_brightness,
                 display_power, brightness>>

\* The settings screen stores new toggles and raises FrogPilotTogglesUpdated
TogglesUpdated ==
  /\ ~FrogPilotTogglesUpdated
  /\ FrogPilotTogglesUpdated' = TRUE
  /\ emitted' = << >>
  /\ UNCHANGED <<zero_due, seen, call>>
  /\ UNCHANGED <<frame, updated, rcv_frame, msgs, scene, status, started_prev,
                 default_params_set, toggles_checked, live_toggles_checked>>
  /\ UNCHANGED <<awake, interactive_timeout, ignition_on, last_brightness,
                 brightness_filter, future_running, in_flight, hw_brightness,
                 display_power, brightness>>

-----------------------------------------------------------------------------------------------------------------------------------------------------
(* Specifications: the same program, each on the inputs its claims are about *)

WriteReturns == \E i \in 1..Len(in_flight) : WriteDone(i)

\* Spec: the brightness controller. Hardware link, device state, camera light,
\* the parameter store, screen touches.
BrightFresh == {{}, {"pandaStates", "deviceState"}, {"wideRoadCameraState"}}

Next ==
  \/ (frame < MaxFrame /\ TickOn(BrightFresh, Payloads, frame + 1))
  \/ WriteReturns
  \/ resetInteractiveTimeout(1)
  \/ \E p \in ParamStores : ui_update_params(p)

Spec == Init /\ [][Next]_vars

\* SpecStatus: the status machine. Hardware link, device state, controls
\* state, car control and car parameters.
StatusFresh == {{}, {"pandaStates", "deviceState"},
                {"deviceState", "controlsState"}, {"controlsState"}, {"carParams"},
                {"carControl"}, {"carControl", "controlsState"}}

NextStatus ==
  \/ (frame < MaxFrameStatus /\ TickOn(StatusFresh, Payloads, frame + 1))
  \/ WriteReturns

SpecStatus == Init /\ [][NextStatus]_vars

\* SpecWake: wakefulness and the hardware link. Only pandaStates arrives.
NextWake ==
  \/ (frame < MaxFrameWake /\ TickOn({{}, {"pandaStates"}}, Payloads, frame + 1))
  \/ WriteReturns
  \/ \E t \in ResetTimeouts : resetInteractiveTimeout(t)
  \/ \E p \in ParamStores : ui_update_params(p)

SpecWake == Init /\ [][NextWake]_vars

\* SpecFair: the brightness controller running for ever. No topic is ever
\* fresh (so frame = 1 and the staleness test keep their values once the
\* counter stops at MaxFrameFair); ticks and write completions are fair: the
\* timer keeps firing and a started Hardware::set_brightness call returns.
TickFair == TickOn({{}}, Payloads, Min(frame + 1, MaxFrameFair))

NextFair ==
  \/ TickFair
  \/ WriteReturns
  \/ TogglesUpdated
  \/ resetInteractiveTimeout(1)
  \/ \E p \in ParamStores : ui_update_params(p)

SpecFair == Init /\ [][NextFair]_vars /\ WF_vars(TickFair) /\ WF_vars(WriteReturns)

\* SpecSync: selective recomputation. Every topic; in one tick no topic is
\* fresh, or one, or all but one, or all.
SyncFresh == {{}, Topics} \cup {{t} : t \in Topics} \cup {Topics \ {t} : t \in Topics}

NextSync ==
  \/ (frame < MaxFrameSync /\ TickOn(SyncFresh, FewPayloads, frame + 1))
  \/ WriteReturns
  \/ \E p \in {q \in ParamStores : q.Compass} : ui_update_params(p)

SpecSync == Init /\ [][NextSync]_vars

\* SpecInputs: what update_state makes of the hardware link, device state,
\* car parameters, car control, controls state and calibration messages; the
\* fresh pandaStates, carControl and liveCalibration messages are kept in seen.
InputsFresh == {{}, {"pandaStates"}, {"deviceState"}, {"pandaStates", "deviceState"},
                {"carParams"}, {"carControl"}, {"controlsState"},
                {"carControl", "controlsState"}, {"liveCalibration"}}

InputsWatch == {"pandaStates", "carControl", "liveCalibration"}

NextInputs ==
  \/ (frame < MaxFrameInputs /\ TickWatch(InputsFresh, Payloads, InputsWatch, frame + 1))
  \/ WriteReturns

SpecInputs == Init /\ [][NextInputs]_vars

\* SpecGeo: the model geometry. One call of update_line_data or of
\* get_path_length_idx is pending from the start, with any trajectory and
\* arguments; the drawing code runs it after the calibration message of the
\* first tick, well-formed (level or pitched a quarter turn) or with a vector
\* of the wrong length.
GeoPayloads(t) ==
  IF t = "liveCalibration"
  THEN {[rpyCalib |-> <<0, 0, 0>>, wideFromDeviceEuler |-> <<0, 0, 0>>,
         calStatus |-> "CALIBRATED"],
        [rpyCalib |-> <<0, 1, 0>>, wideFromDeviceEuler |-> <<0, 0, 0>>,
         calStatus |-> "CALIBRATED"],
        [rpyCalib |-> <<>>, wideFromDeviceEuler |-> <<1, 0, 0>>,
         calStatus |-> "CALIBRATED"]}
  ELSE FewPayloads(t)

InitGeo == InitUI /\ call \in LineDataCalls \cup PathLengthCalls \cup ModelCalls

NextGeo ==
  \/ (frame < 1 /\ TickOn({{"liveCalibration"}}, GeoPayloads, frame + 1))
  \/ (frame >= 1 /\ RunLineData)
  \/ RunPathLength
  \/ RunModel

SpecGeo == InitGeo /\ [][NextGeo]_vars

\* SpecBright: the brightness overrides. The parameter store holds any
\* integer as ScreenBrightness; device state, hardware link and camera light
\* arrive, the screen is touched.
ScreenBrightnessValues == {-1, 0, 3, 100, 101}

BrightParamStores ==
  {[DefaultParamsSet |-> TRUE, CustomTheme |-> FALSE, CustomSignals |-> 0,
    Compass |-> FALSE, CustomRoadUI |-> FALSE, BlindSpotPath |-> FALSE, DeveloperUI |-> 0,
    RotatingWheel |-> FALSE, ScreenBrightness |-> b] : b \in ScreenBrightnessValues}

BrightPayloads(t) ==
  CASE t = "pandaStates" ->
         {<< [pandaType |-> "DOS", ignitionLine |-> i, ignitionCan |-> FALSE] >> :
            i \in BOOLEAN}
    [] t = "wideRoadCameraState" -> Payloads(t)
    [] t = "deviceState" -> Payloads(t)
    [] OTHER -> FewPayloads(t)

NextBright ==
  \/ (frame < MaxFrameBright /\ TickOn(BrightFresh, BrightPayloads, frame + 1))
  \/ WriteReturns
  \/ resetInteractiveTimeout(1)
  \/ \E p \in BrightParamStores : ui_update_params(p)

SpecBright == Init /\ [][NextBright]_vars

-----------------------------------------------------------------------------
(* Observations on the last step *)

\* The arguments of the emissions of sig in the last step, in order
Args(sig) ==
  LET hits == SelectSeq(emitted, LAMBDA e : e.sig = sig)
  IN  [i \in 1..Len(hits) |-> hits[i].arg]

\* The last step was a tick (UIState::update emits uiUpdate once, last)
Ticked == Args("uiUpdate") # << >>

\* The fresh message of topic t kept in the observation S
SeenIn(S, t) == (CHOOSE p \in S : p[1] = t)[2]

\* The last step started a hardware brightness write
Dispatched == Args("set_brightness") # << >>

-----------------------------------------------------------------------------
(* C1 - brightness single-flight *)

\* C1: at most one hardware brightness write is outstanding at any time, and
\* a tick starts a write exactly when the brightness it computed differs from
\* last_brightness and no earlier write is still running.
C1_SingleFlight ==
  /\ [](Len(in_flight) <= 1)
  /\ [][Ticked' => (Dispatched' <=> (brightness' # last_brightness /\ in_flight = << >>))]_vars
  /\ [][Dispatched' => in_flight' = << brightness' >>]_vars

\* A second write was started after an earlier one returned
C1_Witness == Dispatched /\ hw_brightness # -1 /\ Len(in_flight) = 1

-----------------------------------------------------------------------------
(* C2 - a dropped brightness is picked up by a later tick *)

BrightnessValues ==
  {0} \cup FilterLevels \cup {Max(TapBrightness, p.ScreenBrightness) : p \in ParamStores}

\* C2: a tick that computes a brightness other than last_brightness while a
\* write is in flight starts no write and leaves last_brightness alone (so the
\* pending write stays the only one); a tick that computes such a value with
\* no write in flight starts a write of it and sets last_brightness to it; and,
\* ticks and write completions being fair, a computed value that stays the
\* same for ever is in the end the value the hardware holds.
C2_PickedUpLater ==
  /\ [][(Ticked' /\ brightness' # last_brightness /\ in_flight # << >>)
          => (~Dispatched' /\ last_brightness' = last_brightness /\ in_flight' = in_flight)]_vars
  /\ [][(Ticked' /\ brightness' # last_brightness /\ in_flight = << >>)
          => (Dispatched' /\ last_brightness' = brightness'
              /\ in_flight' = << brightness' >>)]_vars
  /\ \A v \in BrightnessValues :
       <>[](brightness = v) => <>[](hw_brightness = v /\ in_flight = << >>)

\* A tick has just dropped a value: it differs from last_brightness and the
\* earlier write is still the only one in flight
C2_Witness ==
  Ticked /\ ~Dispatched /\ brightness # last_brightness /\ in_flight = << last_brightness >>

-----------------------------------------------------------------------------
(* C3 - status derivation *)

\* scene.started changed in the last tick's update_state, seen from the step
StartEdge == ~scene.started /\ scene'.started
StopEdge == scene.started /\ ~scene'.started

\* C3: on a tick with scene.started true, a fresh controlsState message and no
\* start edge, status becomes OVERRIDE if the message's state is PRE_ENABLED or
\* OVERRIDING, else LATERAL_ACTIVE if always_on_lateral_active is set, else
\* ENGAGED or DISENGAGED as the message's enabled says.
C3_StatusDerivation ==
  [][(Ticked' /\ scene'.started /\ "controlsState" \in updated' /\ ~StartEdge /\ frame' # 1)
       => status' =
            (IF msgs'.controlsState.state \in {"PRE_ENABLED", "OVERRIDING"}
             THEN STATUS_OVERRIDE
             ELSE IF scene'.always_on_lateral_active
                  THEN STATUS_LATERAL_ACTIVE
                  ELSE IF msgs'.controlsState.enabled
                       THEN STATUS_ENGAGED
                       ELSE STATUS_DISENGAGED)]_vars

\* OVERRIDE was derived from a fresh message although always_on_lateral_active
\* is set
C3_Witness ==
  /\ Ticked /\ scene.started /\ "controlsState" \in updated
  /\ Args("offroadTransition") = << >>
  /\ scene.always_on_lateral_active
  /\ status = STATUS_OVERRIDE

-----------------------------------------------------------------------------
(* C4 - a start/stop edge forces DISENGAGED *)

\* C4 as stated: on every tick on which scene.started differs from its value
\* at the previous tick, and on frame 1, status ends DISENGAGED; on a start
\* edge started_frame is the tick index.
C4_EdgeForcesDisengaged ==
  [][(Ticked' /\ (StartEdge \/ StopEdge \/ frame' = 1))
       => (status' = STATUS_DISENGAGED
           /\ (StartEdge => scene'.started_frame = frame'))]_vars

\* C4 amended: on every tick with a start edge (frame 1 included) status ends
\* DISENGAGED, whatever a fresh controlsState message says, and started_frame
\* is the tick index; on a tick with a stop edge, and on frame 1 when
\* scene.started is false, status keeps the value it had before the tick.
C4_StartForcesDisengaged ==
  /\ [][(Ticked' /\ StartEdge)
          => (status' = STATUS_DISENGAGED /\ scene'.started_frame = frame')]_vars
  /\ [][(Ticked' /\ ~scene'.started /\ (StopEdge \/ frame' = 1))
          => (status' = status /\ scene'.started_frame = scene.started_frame)]_vars

\* A start edge met a fresh controlsState message that says enabled, and
\* status is DISENGAGED
C4_Witness ==
  /\ Ticked /\ scene.started /\ Args("offroadTransition") = << FALSE >>
  /\ "controlsState" \in updated /\ msgs.controlsState.enabled
  /\ status = STATUS_DISENGAGED /\ scene.started_frame = frame /\ frame > 1

-----------------------------------------------------------------------------
(* C5 - offroadTransition fires once per edge *)

\* C5: offroadTransition is emitted on a tick exactly when scene.started
\* differs from started_prev or the tick is frame 1, then once and with argument
\* NOT scene.started; no other step emits it.
C5_OffroadTransitionOncePerEdge ==
  [][Args("offroadTransition")' =
       (IF Ticked' /\ (scene'.started # started_prev \/ frame' = 1)
        THEN << ~scene'.started >>
        ELSE << >>)]_vars

\* The notification of a stop edge after frame 1
C5_Witness == Ticked /\ frame > 1 /\ Args("offroadTransition") = << TRUE >>

-----------------------------------------------------------------------------
(* C6 - status is stable between triggers *)

\* C6: a tick that has neither (scene.started and a fresh controlsState) nor
\* an edge of scene.started, and is not frame 1, leaves status as it was.
C6_StatusStable ==
  [][(Ticked' /\ ~(scene'.started /\ "controlsState" \in updated')
        /\ ~StartEdge /\ ~StopEdge /\ frame' # 1)
       => status' = status]_vars

\* A fresh controlsState arrived while not started, with no edge, and status
\* still is the ENGAGED of the trip before
C6_Witness ==
  /\ Ticked /\ ~scene.started /\ "controlsState" \in updated
  /\ Args("offroadTransition") = << >>
  /\ status = STATUS_ENGAGED

-----------------------------------------------------------------------------
(* C7 - interactive timeout countdown *)

\* scene.ignition went from on to off between the last two ticks
IgnitionOffEdge == ignition_on /\ ~scene'.ignition

\* C7: on the tick where ignition goes from on to off interactive_timeout
\* becomes 30 * UI_FREQ, not decremented; on any other tick it decreases by
\* exactly 1 while positive and stays at 0 otherwise; interactiveTimeout is
\* emitted exactly on the ticks where the counter goes from 1 to 0; the counter
\* is never negative.
C7_TimeoutCountdown ==
  /\ [](interactive_timeout >= 0)
  /\ [][(Ticked' /\ IgnitionOffEdge)
          => interactive_timeout' = IgnitionOffTimeout * UI_FREQ]_vars
  /\ [][(Ticked' /\ ~IgnitionOffEdge)
          => interactive_timeout' =
               (IF interactive_timeout > 0 THEN interactive_timeout - 1 ELSE 0)]_vars
  /\ [][Args("interactiveTimeout")' =
          (IF Ticked' /\ ~IgnitionOffEdge /\ interactive_timeout = 1
           THEN << TRUE >>
           ELSE << >>)]_vars

\* The tick of an ignition-off edge: only the reset leaves the counter at
\* 30 * UI_FREQ after a tick; the last hardware message reported ignition off
C7_Witness ==
  /\ Ticked /\ "pandaStates" \in updated /\ ~scene.ignition /\ ~ignition_on
  /\ interactive_timeout = IgnitionOffTimeout * UI_FREQ
  /\ Args("interactiveTimeout") = << >>

-----------------------------------------------------------------------------
(* C8 - the awake rule *)

\* C8: after every tick awake is (ignition or interactive_timeout > 0) when
\* screen_brightness is not 0 and (interactive_timeout > 0) when it is 0;
\* set_display_power and displayPowerChanged are invoked exactly on the ticks
\* that change awake, once, with the new value.
C8_AwakeRule ==
  /\ [][Ticked' => awake' =
          (IF scene'.screen_brightness # 0
           THEN scene'.ignition \/ interactive_timeout' > 0
           ELSE interactive_timeout' > 0)]_vars
  /\ [][Args("set_display_power")' =
          (IF Ticked' /\ awake' # awake THEN << awake' >> ELSE << >>)]_vars
  /\ [][Args("displayPowerChanged")' = Args("set_display_power")']_vars
  /\ [](display_power = awake)

\* The screen went off with the ignition on, because screen_brightness is 0
C8_Witness ==
  /\ Ticked /\ ~awake /\ scene.ignition /\ scene.screen_brightness = 0
  /\ Args("set_display_power") = << FALSE >>

-----------------------------------------------------------------------------
(* C10 - hardware-link staleness *)

\* C10: on a tick where pandaStates is not fresh, pandaType becomes UNKNOWN if
\* the number of ticks since pandaStates was last received exceeds
\* 5 * UI_FREQ and is unchanged otherwise; ignition keeps its value.
C10_PandaStaleness ==
  [][(Ticked' /\ "pandaStates" \notin updated')
       => /\ scene'.ignition = scene.ignition
          /\ scene'.pandaType =
               (IF frame' - rcv_frame' > PandaStaleFactor * UI_FREQ
                THEN "UNKNOWN"
                ELSE scene.pandaType)]_vars

\* The hardware type fell back to UNKNOWN on the first stale tick; the ignition
\* reported by the last message is still set
C10_Witness ==
  /\ Ticked /\ "pandaStates" \notin updated
  /\ rcv_frame = 1 /\ frame = rcv_frame + PandaStaleFactor * UI_FREQ + 1
  /\ scene.pandaType = "UNKNOWN" /\ scene.ignition

-----------------------------------------------------------------------------
(* C9 - selective recomputation *)

\* The scene fields update_state takes from each topic
SceneFields(t) ==
  CASE t = "liveCalibration" ->
         {"view_from_calib", "view_from_wide_calib", "calibration_valid",
          "calibration_wide_valid"}
    [] t = "pandaStates" -> {"ignition"}
    [] t = "carControl" -> {"always_on_lateral_active"}
    [] t = "carParams" ->
         {"always_on_lateral", "longitudinal_control", "conditional_experimental",
          "driving_personalities_ui_wheel", "experimental_mode_via_wheel"}
    [] t = "carState" ->
         {"blind_spot_left", "blind_spot_right", "turn_signal_left", "turn_signal_right",
          "steering_angle_deg", "toyota_car"}
    [] t = "controlsState" -> {"enabled", "experimental_mode"}
    [] t = "gpsLocationExternal" -> {"bearing_deg"}
    [] t = "lateralPlan" -> {"lane_width_left", "lane_width_right"}
    [] t = "longitudinalPlan" ->
         {"desired_follow", "obstacle_distance", "obstacle_distance_stock",
          "stopped_equivalence", "stopped_equivalence_stock"}
    [] t = "wideRoadCameraState" -> {"light_sensor"}
    [] OTHER -> {}

\* C9: on every tick, for each of the ten topics that has no fresh message,
\* every scene field taken from that topic keeps its value, whatever other
\* topics are fresh.
C9_SelectiveRecomputation ==
  [][Ticked' => \A t \in Topics \ updated' :
                  \A fld \in SceneFields(t) : scene'[fld] = scene[fld]]_vars

\* All topics but carState were fresh in the last tick; the blind-spot and
\* steering fields still hold what an earlier carState message said, while the
\* fields of the fresh topics hold the new values
C9_Witness ==
  /\ Ticked /\ updated = Topics \ {"carState"}
  /\ scene.blind_spot_left /\ scene.steering_angle_deg = 15
  /\ scene.enabled /\ scene.light_sensor = 90 /\ scene.bearing_deg = 90
  /\ scene.calibration_valid /\ scene.ignition

-----------------------------------------------------------------------------
(* C11 - ignition derivation *)

\* C11: on a tick with a fresh pandaStates message that is not empty and whose
\* first unit's type is not UNKNOWN, ignition becomes the OR over all units of
\* (ignitionLine or ignitionCan), whatever it was; when the message is empty
\* or its first unit's type is UNKNOWN, ignition keeps its value.
C11_IgnitionDerivation ==
  [][(Ticked' /\ "pandaStates" \in updated')
       => LET m == SeenIn(seen', "pandaStates")
          IN  scene'.ignition =
                (IF Len(m) > 0 /\ m[1].pandaType # "UNKNOWN"
                 THEN \E i \in 1..Len(m) : m[i].ignitionLine \/ m[i].ignitionCan
                 ELSE scene.ignition)]_vars

\* Ignition came on through the second unit of a fresh message alone
C11_Witness ==
  /\ Ticked /\ "pandaStates" \in updated /\ scene.ignition
  /\ LET m == SeenIn(seen, "pandaStates")
     IN  /\ Len(m) = 2 /\ m[1].pandaType # "UNKNOWN"
         /\ ~m[1].ignitionLine /\ ~m[1].ignitionCan
         /\ m[2].ignitionLine \/ m[2].ignitionCan

-----------------------------------------------------------------------------
(* C12 - the started flag *)

\* C12: after every tick scene.started is (the latest deviceState message
\* says started) and scene.ignition as the tick left it, deviceState fresh or
\* not; scene.started is never true while scene.ignition is false.
C12_StartedFlag ==
  /\ [][Ticked' => scene'.started = (msgs'.deviceState.started /\ scene'.ignition)]_vars
  /\ [](scene.started => scene.ignition)

\* The trip that started at frame 1 ended when a fresh pandaStates reported
\* ignition off, while the latest deviceState, not fresh, still says started
C12_Witness ==
  /\ Ticked /\ updated = {"pandaStates"} /\ frame > 1
  /\ scene.started_frame = 1 /\ msgs.deviceState.started
  /\ ~scene.ignition /\ ~scene.started

-----------------------------------------------------------------------------
(* C13 - the always-on-lateral active flag *)

\* C13: after a tick in which carControl is fresh and the always_on_lateral
\* capability is set, always_on_lateral_active is (carControl.alwaysOnLateral
\* and not enabled), enabled being that of the latest controlsState message of
\* the same tick, one that became fresh in it included.
C13_LateralActiveUsesLatestEnabled ==
  [][(Ticked' /\ "carControl" \in updated' /\ scene'.always_on_lateral)
       => scene'.always_on_lateral_active =
            (SeenIn(seen', "carControl").alwaysOnLateral /\ ~msgs'.controlsState.enabled)]_vars

-----------------------------------------------------------------------------
(* C14 - malformed calibration vectors *)

\* C14: on a fresh liveCalibration message, if wideFromDeviceEuler does not
\* have exactly 3 elements then calibration_wide_valid is false after the
\* tick, and if rpyCalib does not have exactly 3 elements then view_from_calib
\* is unchanged or calibration_valid is false after the tick.
C14_MalformedCalibrationFlagged ==
  [][(Ticked' /\ "liveCalibration" \in updated')
       => LET m == SeenIn(seen', "liveCalibration")
          IN  /\ Len(m.wideFromDeviceEuler) # 3 => ~scene'.calibration_wide_valid
              /\ Len(m.rpyCalib) # 3
                   => (scene'.view_from_calib = scene.view_from_calib
                       \/ ~scene'.calibration_valid)]_vars

-----------------------------------------------------------------------------
(* C15 - band construction *)

\* A coordinate is a number within lo..hi
InsideRange(c, lo, hi) == c.k = "fin" /\ lo * c.d <= c.n /\ c.n <= hi * c.d

\* A vertex lies in the clip region: the frame widened by the margin
InClipRegion(v) ==
  /\ InsideRange(v.x, 0 - ClipMargin, fb_w + ClipMargin)
  /\ InsideRange(v.y, 0 - ClipMargin, fb_h + ClipMargin)

\* The left half of a polygon and the number of its points
LeftCount(pvd) == Len(pvd) \div 2

\* C15: the polygon update_line_data produces is the accepted left points in
\* increasing sample order followed by the accepted right points in
\* decreasing sample order: it has an even number of points, point k and point
\* len-1-k come from the same sample, every accepted sample is one of
\* 0..max_idx whose x is not negative, and every point lies inside the clip
\* region.
C15_BandConstruction ==
  (call.fn = "update_line_data" /\ call.done)
    => LET pvd == call.pvd
           n == Len(pvd)
           k == LeftCount(pvd)
       IN  /\ n = 2 * k
           /\ \A j \in 1..k :
                /\ pvd[j].side = "left" /\ pvd[n + 1 - j].side = "right"
                /\ pvd[j].i = pvd[n + 1 - j].i
                /\ pvd[j].i \in 0..call.max_idx
                /\ call.line[pvd[j].i + 1].x >= 0
                /\ InClipRegion(pvd[j]) /\ InClipRegion(pvd[n + 1 - j])
           /\ \A j \in 1..(k - 1) : pvd[j].i < pvd[j + 1].i

-----------------------------------------------------------------------------
(* C16 - no inversion *)

\* a <= b on numbers
NumLe(a, b) == a.k = "fin" /\ b.k = "fin" /\ a.n * b.d <= b.n * a.d

\* C16: with allow_invert false, each accepted left point's screen y is at
\* most the y of the left point accepted before it, and a sample gives
\* either both a left and a right point or none.
C16_NoInversion ==
  (call.fn = "update_line_data" /\ call.done /\ ~call.allow_invert)
    => LET pvd == call.pvd
           n == Len(pvd)
           k == LeftCount(pvd)
       IN  /\ \A j \in 1..(k - 1) : NumLe(pvd[j + 1].y, pvd[j].y)
           /\ n = 2 * k
           /\ \A j \in 1..k : pvd[j].i = pvd[n + 1 - j].i

-----------------------------------------------------------------------------
(* C17 - the index get_path_length_idx returns *)

\* The largest of a non-empty set of indices
MaxOf(S) == CHOOSE i \in S : \A j \in S : j <= i

\* The largest index i of 1..TRAJECTORY_SIZE-1 with x[i] <= d, 0 without one
LargestIdx(line, d) ==
  MaxOf({0} \cup {i \in 1..(TRAJECTORY_SIZE - 1) : line[i + 1].x <= d})

\* The largest index i such that x[j] <= d for every j of 1..i
PrefixIdx(line, d) ==
  MaxOf({i \in 0..(TRAJECTORY_SIZE - 1) : \A j \in 1..i : line[j + 1].x <= d})

\* The x values of a trajectory never decrease
NonDecreasing(line) ==
  \A i \in 1..(TRAJECTORY_SIZE - 1) : line[i].x <= line[i + 1].x

\* A call of get_path_length_idx has returned
PathLengthDone == call.fn = "get_path_length_idx" /\ call.done

\* C17 as stated: get_path_length_idx(line, d) is the largest index i of
\* 1..TRAJECTORY_SIZE-1 with line.x[i] <= d, and 0 when there is none, for
\* every trajectory, monotonic or not.
C17_LargestIndex ==
  PathLengthDone => call.max_idx = LargestIdx(call.line, call.path_height)

\* C17 amended: get_path_length_idx(line, d) is the largest index i such
\* that line.x[j] <= d for every j of 1..i (the scan stops at the first
\* sample beyond d); for a trajectory with non-decreasing x that is the
\* largest index with line.x[i] <= d.
C17_PrefixIndex ==
  PathLengthDone =>
    /\ call.max_idx = PrefixIdx(call.line, call.path_height)
    /\ NonDecreasing(call.line)
         => call.max_idx = LargestIdx(call.line, call.path_height)

\* A call on a trajectory that comes back within d after a sample beyond it
C17_Witness ==
  /\ PathLengthDone
  /\ ~NonDecreasing(call.line)
  /\ call.line[2].x > call.path_height
  /\ call.line[TRAJECTORY_SIZE].x <= call.path_height
  /\ call.max_idx = 0

-----------------------------------------------------------------------------
(* C18 - get_path_length_idx grows with the distance *)

\* The distances a call is compared with
Distances == (0 - 1)..(MaxX + 1)

\* C18: for a trajectory with non-decreasing x the index grows with the
\* distance: a smaller distance never gives a larger index and a larger
\* distance never a smaller one; and for every trajectory the index lies in
\* 0..TRAJECTORY_SIZE-1.
C18_MonotonicInDistance ==
  PathLengthDone =>
    /\ call.max_idx \in 0..(TRAJECTORY_SIZE - 1)
    /\ NonDecreasing(call.line) =>
         \A d \in Distances :
           /\ d <= call.path_height
                => get_path_length_idx(call.line, d) <= call.max_idx
           /\ d >= call.path_height
                => get_path_length_idx(call.line, d) >= call.max_idx

\* A call on a non-decreasing trajectory where a smaller distance gives a
\* strictly smaller index and a larger one a strictly larger index
C18_Witness ==
  /\ PathLengthDone
  /\ NonDecreasing(call.line)
  /\ \E d \in Distances :
       d < call.path_height /\ get_path_length_idx(call.line, d) < call.max_idx
  /\ \E d \in Distances :
       d > call.path_height /\ get_path_length_idx(call.line, d) > call.max_idx

-----------------------------------------------------------------------------
(* C19 - lead foreshortening *)

\* update_model has computed its draw distance
ModelDone == call.fn = "update_model" /\ call.done

\* 2d - min(0.7d, 10) for a lead at distance d
Foreshortened(d) == 2 * d - Min((7 * d) \div 10, 10 * DistanceUnit)

\* C19: with a valid lead one at distance d the draw distance of the path and
\* path-edge bands is 2d - min(0.7d, 10), floored at 0 and never larger than
\* the draw distance M computed before the lead clamp; without a lead it is M.
C19_LeadForeshortening ==
  ModelDone =>
    IF call.lead_status
    THEN /\ call.max_distance = Max(0, Min(Foreshortened(call.dRel), call.base))
         /\ call.max_distance >= 0
         /\ call.max_distance <= call.base
    ELSE call.max_distance = call.base

-----------------------------------------------------------------------------
(* C20 - brightness overrides *)

\* C20 as stated: the value a tick offers for a hardware write is 0 when the
\* device is not awake; at least 5 when it is awake and screen_brightness is
\* within 0..100; the smoothed sensor-derived value, unmodified, when it is
\* awake and screen_brightness is outside 0..100.
C20_BrightnessOverrides ==
  [][Ticked' =>
       IF ~awake
       THEN brightness' = 0
       ELSE IF scene'.screen_brightness \in 0..MaxScreenBrightness
            THEN brightness' >= TapBrightness
            ELSE brightness' = brightness_filter']_vars

\* C20 amended: the value a tick offers for a hardware write is 0 when the
\* device is not awake; the larger of 5 and screen_brightness when it is
\* awake and screen_brightness is at most 100, negative values included; the
\* smoothed sensor-derived value, unmodified, when it is awake and
\* screen_brightness is above 100.
C20_OverridesUpTo100 ==
  [][Ticked' =>
       IF ~awake
       THEN brightness' = 0
       ELSE IF scene'.screen_brightness <= MaxScreenBrightness
            THEN /\ brightness' = Max(TapBrightness, scene'.screen_brightness)
                 /\ brightness' >= TapBrightness
            ELSE brightness' = brightness_filter']_vars

\* An awake device with a negative screen_brightness was offered the tap
\* floor, which is not the smoothed value
C20_Witness ==
  /\ Ticked
  /\ scene.screen_brightness < 0
  /\ brightness = TapBrightness
  /\ brightness_filter # TapBrightness

-----------------------------------------------------------------------------
(* C21 - last_brightness and the write of 0 after the screen goes off *)

\* last_brightness changes only in a step that dispatches a write, and every
\* dispatched write leaves its argument in last_brightness
LastIsDispatched ==
  /\ last_brightness' # last_brightness
       => Args("set_brightness")' = << last_brightness' >>
  /\ Args("set_brightness")' # << >>
       => Args("set_brightness")' = << last_brightness' >>

\* The tick on which awake turns false does not dispatch a write of 0
NoZeroOnTurnOff ==
  (Ticked' /\ awake /\ ~awake') => Args("set_brightness")' # << 0 >>

\* The first tick after awake turned false that starts with awake still false
\* and no write in flight
FirstDarkTick == Ticked' /\ zero_due /\ ~awake /\ ~future_running

\* C21 as stated: last_brightness is the argument of the most recently
\* dispatched write; the tick on which awake turns false does not write 0;
\* the first later tick on which awake is still false and no write is in
\* flight dispatches the write of 0.
C21_ZeroWrittenOnFirstDarkTick ==
  [][/\ LastIsDispatched
     /\ NoZeroOnTurnOff
     /\ FirstDarkTick => Args("set_brightness")' = << 0 >>]_vars

\* C21 amended: as above, but the first later tick on which awake is still
\* false and no write is in flight dispatches the write of 0 only when the
\* last dispatched value is not 0 already; when it is 0 no write is
\* dispatched.
C21_ZeroWrittenUnlessLast ==
  [][/\ LastIsDispatched
     /\ NoZeroOnTurnOff
     /\ FirstDarkTick =>
          /\ last_brightness' = 0
          /\ Args("set_brightness")' =
               IF last_brightness # 0 THEN << 0 >> ELSE << >>]_vars

\* The screen went off a tick ago while a write was in flight, the write has
\* returned, and this tick dispatched the write of 0
C21_Witness ==
  /\ Ticked
  /\ ~awake
  /\ ~zero_due
  /\ Args("set_brightness") = << 0 >>
  /\ last_brightness = 0
  /\ in_flight = << 0 >>

-----------------------------------------------------------------------------
(* C22 - LATERAL_ACTIVE needs the always-on-lateral capability *)

\* C22: in every reachable state always_on_lateral_active implies the
\* always_on_lateral capability of the latest carParams message (the value
\* update_state keeps in scene.always_on_lateral), and status LATERAL_ACTIVE
\* implies always_on_lateral.
C22_LateralActiveNeedsCapability ==
  /\ scene.always_on_lateral_active => scene.always_on_lateral
  /\ status = STATUS_LATERAL_ACTIVE => scene.always_on_lateral

====
